---- MODULE Spec2Model ----
(***************************************************************************)
(* Model of rio's TextInput component (src/rio/components/text_input.py)   *)
(* and of the session it lives in, as driven by the message handlers of    *)
(* the component and by rio.testing.TestClient (src/rio/testing.py).       *)
(*                                                                         *)
(* One session owns the user's root component (`MyComponent` of the        *)
(* TextInput docstring, with one attribute `text`) and one TextInput,      *)
(* below the session's own root.  The client sends state-edit deltas and   *)
(* confirm messages; the session task handles them one after the other.    *)
(* A step of the model is the code between two suspension points (await).  *)
(* A run starts with the TestClient constructed: entering it creates the   *)
(* session and sends the initial state, leaving it closes the session.     *)
(***************************************************************************)
EXTENDS Integers, Sequences, FiniteSets, TLC

\* ------------------------------------------------------------------ bounds
MaxMsgs == 2        \* inbound messages the client sends in one run
MaxQueue == 2       \* inbound messages waiting at the same time
MaxMutations == 2   \* attribute assignments made by the driving program
MaxRequests == 2    \* refresh() calls made by the driving program
MaxCalls == 2       \* outbound messages of the session other than state updates
MaxCloses == 2      \* times the session is closed

\* ------------------------------------------------------------ JSON values
\* A JSON value keeps its runtime type, so that isinstance(v, str) is a test
\* the model can fail.
StrV(s) == [t |-> "str", v |-> s]
IntV(s) == [t |-> "int", v |-> s]
BoolV(b) == [t |-> "bool", v |-> IF b THEN "True" ELSE "False"]
NoValue == [t |-> "none", v |-> "None"]

Texts == {"ab", "abc"}
TextValues == {StrV(s) : s \in Texts} \cup {IntV("7")}
BoolValues == {BoolV(TRUE), BoolV(FALSE)}

IsStr(x) == x.t = "str"
Truthy(x) == x \notin {BoolV(FALSE), StrV(""), IntV("0"), NoValue}

\* ------------------------------------------------------------- components
SessionRootId == 0   \* session._root_component, never part of a reported delta
RootId == 1          \* the user's root component
TextInputId == 2
Ids == {SessionRootId, RootId, TextInputId}

\* The attributes of the TextInput that the model carries.
AttrNames == {"text", "is_sensitive"}

\* Keys a client may put into a delta, and the values it may give each.
ClientValues(k) == IF k = "text" THEN TextValues ELSE BoolValues
DeltaStates == UNION {{d \in [K -> TextValues \cup BoolValues] :
                          \A k \in K : d[k] \in ClientValues(k)} :
                      K \in SUBSET AttrNames}
EmptyDelta == [k \in {} |-> NoValue]
TextDelta(v) == [k \in {"text"} |-> v]

\* Inbound messages: a state-edit delta (componentStateUpdate) or a message
\* for the component's _on_message.  The latter need not be a dict.
ConfirmBodies == {EmptyDelta} \cup {TextDelta(v) : v \in TextValues}
Messages ==
    {[kind |-> "delta", isdict |-> TRUE, body |-> d] : d \in DeltaStates}
    \cup {[kind |-> "confirm", isdict |-> TRUE, body |-> d] : d \in ConfirmBodies}
    \cup {[kind |-> "confirm", isdict |-> FALSE, body |-> EmptyDelta]}
NoMessage == [kind |-> "none", isdict |-> FALSE, body |-> EmptyDelta]

VARIABLES
    attrs,        \* the TextInput's attribute store: [AttrNames -> value]
    on_change,    \* TRUE iff an on_change handler is registered
    on_confirm,   \* TRUE iff an on_confirm handler is registered
    rootText,     \* the root component's attribute `text`
    inbox,        \* inbound messages not yet dispatched, in arrival order
    nrecv,        \* number of inbound messages received so far
    cur,          \* the message being handled (or the last one handled)
    seq,          \* arrival number of `cur`
    pc,           \* position of the session task in the handler
    outcome,      \* "none" | "handling" | "rejected" | "done" for `cur`
    pre,          \* the attribute store when `cur` was dispatched
    log,          \* what handling `cur` has done so far, in order
    dirty,        \* the session's dirty set, in insertion order
    marks,        \* how often each component was marked since the last drain
    changed,      \* per component, attributes changed since the last drain
    requests,     \* refresh requests not yet served by a cycle
    rstate,       \* reconciler: "Idle" | "Draining" | "Rebuilding" | "Diffing"
    todo,         \* drained components still to rebuild in this cycle
    cycle,        \* the running (or last) cycle: what it drained and built
    sent,         \* outbound messages handed to the transport, in order
    nmut,         \* attribute assignments made by the driving program
    nreq,         \* refresh() calls made by the driving program
    phase,        \* "Created" | "Entering" | "Active" | "Closed"
    faulty,       \* components whose builder raises when their text is "abc"
    ncall,        \* outbound messages sent that are not state updates
    nclose,       \* times the session was closed
    first_refresh_completed,  \* TestClient._first_refresh_completed is set
    responses,    \* responses the TestClient queued for the session, in order
    crashed,      \* session._crashed_build_functions, by component
    build         \* the Build Result of each component

vars == <<attrs, on_change, on_confirm, rootText, inbox, nrecv, cur, seq, pc,
          outcome, pre, log, dirty, marks, changed, requests, rstate, todo,
          cycle, sent, nmut, nreq, phase, faulty, ncall, nclose,
          first_refresh_completed, responses, crashed, build>>

compVars == <<attrs, on_change, on_confirm, rootText>>
msgVars == <<cur, seq, pc, outcome, pre, log>>
reconVars == <<rstate, todo, cycle, sent>>
driverVars == <<nmut, nreq>>
lifeVars == <<phase, faulty, ncall, nclose>>
transportVars == <<first_refresh_completed, responses>>
buildVars == <<crashed, build>>
clientVars == <<lifeVars, transportVars, buildVars>>

\* ------------------------------------------------------------------ store
\* The part of the state that attribute assignments touch, as one record, so
\* that the assignments of one step can be chained.
Store == [attrs |-> attrs, rootText |-> rootText, dirty |-> dirty,
          marks |-> marks, changed |-> changed]

Commit(S) ==
    /\ attrs' = S.attrs
    /\ rootText' = S.rootText
    /\ dirty' = S.dirty
    /\ marks' = S.marks
    /\ changed' = S.changed

Range(q) == {q[i] : i \in DOMAIN q}

\* (variant: a list instead of a set, every mark is appended)
Add_Append(q, id) == Append(q, id)

\* Dirty Set: adding to the (ordered) set is an idempotent insert.
Add(q, id) == IF id \in Range(q) THEN q ELSE Append(q, id)

\* A component is marked dirty because of the attributes `names`.
Mark(S, id, names) ==
    [S EXCEPT !.dirty = Add(@, id),
              !.marks[id] = @ + 1,
              !.changed[id] = @ \cup names]

\* Assignment to a component attribute by server-side code (a handler or the
\* driving program): the component becomes dirty when the value changes.
SetAttr(S, id, name, v) ==
    IF id = RootId
    THEN IF S.rootText = v THEN S
         ELSE Mark([S EXCEPT !.rootText = v], id, {name})
    ELSE IF S.attrs[name] = v THEN S
         ELSE Mark([S EXCEPT !.attrs[name] = v], id, {name})

\* Component._apply_delta_state_from_frontend: every key of the delta is
\* written to the attribute store, in one go.
ApplyDeltaStateFromFrontend(S, d) ==
    LET ks == {k \in DOMAIN d : d[k] # S.attrs[k]}
    IN  IF ks = {} THEN S
        ELSE Mark([S EXCEPT !.attrs = [n \in AttrNames |->
                                 IF n \in DOMAIN d THEN d[n] ELSE @[n]]],
                  TextInputId, ks)

\* --------------------------------------------------------------- handlers
\* What a registered handler does before it returns.  "none": it only reads
\* the event.  "assign": it assigns the TextInput's text.  "parent": it
\* stores the event's text in its own component (on_value_change of the
\* docstring example).  The handler may suspend before it returns: that is
\* the state between its invocation and its return.
Effects == {[kind |-> "none", w |-> NoValue], [kind |-> "parent", w |-> NoValue]}
           \cup {[kind |-> "assign", w |-> StrV(s)] : s \in Texts}

HandlerReturns(S, e, ev) ==
    CASE e.kind = "none" -> S
      [] e.kind = "assign" -> SetAttr(S, TextInputId, "text", e.w)
      [] e.kind = "parent" -> SetAttr(S, RootId, "text", ev)

Entry(op, ev, a) == [op |-> op, ev |-> ev, stored |-> a["text"]]

\* The event given to the handler that is running (the last one invoked).
RunningEvent == log[Len(log)].ev

\* ----------------------------------------------------- TextInput's methods
\* (variant: the whitelist test is left out, only is_sensitive is consulted)
ValidateDeltaStateFromFrontend_NoWhitelist(a, d) ==
    ~("text" \in DOMAIN d /\ ~Truthy(a["is_sensitive"]))

\* (variant: the whitelist test asks for the text key instead of excluding
\* the other keys, `{"text"} <= set(delta_state)`)
ValidateDeltaStateFromFrontend_Superset(a, d) ==
    /\ {"text"} \subseteq DOMAIN d
    /\ ~("text" \in DOMAIN d /\ ~Truthy(a["is_sensitive"]))

\* (variant: is_sensitive is not consulted, only the whitelist)
ValidateDeltaStateFromFrontend_NoSensitive(a, d) ==
    DOMAIN d \subseteq {"text"}

\* _validate_delta_state_from_frontend: TRUE iff no AssertionError is raised.
ValidateDeltaStateFromFrontend(a, d) ==
    /\ DOMAIN d \subseteq {"text"}
    /\ ~("text" \in DOMAIN d /\ ~Truthy(a["is_sensitive"]))

\* (variant: the event is built from the stored text, as _on_message does)
DeltaChangeEventText_Stored(a, d) == a["text"]

\* _call_event_handlers_for_delta_state: the text of the TextInputChangeEvent.
DeltaChangeEventText(a, d) == d["text"]

\* _on_message: the delta applied first, and the texts of the two events,
\* both read from the stored text at the time the event is built.
OnMessageDelta(m) == TextDelta(m.body["text"])
ConfirmChangeEventText(a, m) == a["text"]

\* (variant: the confirm event is built from the message's payload)
ConfirmConfirmEventText_Payload(a, m) == m.body["text"]

ConfirmConfirmEventText(a, m) == a["text"]

\* ------------------------------------------------------------------- Init
\* The state after TestClient.__init__: no session yet, nothing sent, the
\* flag not set.  The application under test is given by the TextInput's
\* arguments (its handlers among `handlers`) and by the builders that raise
\* (one of `faults`).
Setup(handlers, faults) ==
    /\ attrs \in {[n \in AttrNames |-> IF n = "text" THEN StrV("ab") ELSE BoolV(s)] :
                     s \in BOOLEAN}
    /\ on_change \in handlers
    /\ on_confirm \in handlers
    /\ faulty \in faults
    /\ phase = "Created"
    /\ ncall = 0
    /\ nclose = 0
    /\ first_refresh_completed = FALSE
    /\ responses = <<>>
    /\ crashed = {}
    /\ build = [i \in Ids |-> NoValue]
    /\ rootText = StrV("ab")
    /\ inbox = <<>>
    /\ nrecv = 0
    /\ cur = NoMessage
    /\ seq = 0
    /\ pc = "idle"
    /\ outcome = "none"
    /\ pre = attrs
    /\ log = <<>>
    /\ dirty = <<>>
    /\ marks = [i \in Ids |-> 0]
    /\ changed = [i \in Ids |-> {}]
    /\ requests = 0
    /\ rstate = "Idle"
    /\ todo = <<>>
    /\ cycle = [n |-> 0, served |-> 0, total |-> 0, drained |-> <<>>,
                marks |-> [i \in Ids |-> 0], changes |-> [i \in Ids |-> {}],
                built |-> [i \in Ids |-> 0], failed |-> {}, prev |-> build,
                before |-> 0, deltas |-> EmptyDelta]
    /\ sent = <<>>
    /\ nmut = 0
    /\ nreq = 0

\* Every TextInput with or without handlers, no builder raises.
Init == Setup(BOOLEAN, {{}})

\* ---------------------------------------------------------------- inbound
\* The transport delivers a client message to the session's inbound queue.
Receive ==
    /\ phase = "Active"
    /\ nrecv < MaxMsgs
    /\ Len(inbox) < MaxQueue
    /\ \E m \in Messages : inbox' = Append(inbox, m)
    /\ nrecv' = nrecv + 1
    /\ UNCHANGED <<compVars, msgVars, dirty, marks, changed, requests,
                   reconVars, driverVars, clientVars>>

\* The session task takes the next message only when it is not handling one.
CanDispatch ==
    /\ phase = "Active"
    /\ pc = "idle"
    /\ inbox # <<>>

Begin(m) ==
    /\ cur' = m
    /\ seq' = seq + 1
    /\ pre' = attrs
    /\ inbox' = Tail(inbox)

\* The handler raised: the message is dropped, the session stays alive.
Reject(m) ==
    /\ Begin(m)
    /\ pc' = "idle"
    /\ outcome' = "rejected"
    /\ log' = <<>>
    /\ UNCHANGED <<compVars, nrecv, dirty, marks, changed, requests,
                   reconVars, driverVars, clientVars>>

\* `await self.session._refresh()`: the handler requests a refresh and waits
\* for the cycle that serves it.
AwaitRefresh(S, l) ==
    /\ Commit(S)
    /\ log' = Append(l, Entry("refresh", NoValue, S.attrs))
    /\ requests' = requests + 1
    /\ pc' = "refresh"
    /\ outcome' = "handling"

\* `await self.call_event_handler(handler, event)` with a registered handler:
\* the handler is invoked and the session task waits for its return.
AwaitHandler(S, l, op, ev, at) ==
    /\ Commit(S)
    /\ log' = Append(l, Entry(op, ev, S.attrs))
    /\ pc' = at
    /\ outcome' = "handling"
    /\ UNCHANGED requests

\* The handling of `cur` ends without a refresh.
Finish(S, l) ==
    /\ Commit(S)
    /\ log' = l
    /\ pc' = "idle"
    /\ outcome' = "done"
    /\ UNCHANGED requests

\* ------------------------------------------- state-edit delta (live edits)
\* Session's componentStateUpdate: validate the delta, let the component call
\* its handlers and apply it, refresh.
\* _call_event_handlers_for_delta_state, last line: apply, then the refresh
\* of the caller.
ApplyAndRefresh(S, l, d) ==
    LET S1 == ApplyDeltaStateFromFrontend(S, d)
    IN  AwaitRefresh(S1, Append(l, Entry("apply", NoValue, S1.attrs)))

\* The delta is refused: by the whitelist, by is_sensitive, or by the
\* isinstance assertion on the new text.
StateUpdateRejected ==
    /\ CanDispatch
    /\ Head(inbox).kind = "delta"
    /\ LET d == Head(inbox).body
       IN  \/ ~ValidateDeltaStateFromFrontend(attrs, d)
           \/ ("text" \in DOMAIN d /\ ~IsStr(d["text"]))
    /\ Reject(Head(inbox))

\* The delta is accepted and no handler has to be waited for: it has no
\* `text` key, or on_change is None.
StateUpdateNoHandler ==
    /\ CanDispatch
    /\ Head(inbox).kind = "delta"
    /\ LET d == Head(inbox).body
       IN  /\ ValidateDeltaStateFromFrontend(attrs, d)
           /\ \/ "text" \notin DOMAIN d
              \/ ("text" \in DOMAIN d /\ IsStr(d["text"]) /\ ~on_change)
           /\ Begin(Head(inbox))
           /\ ApplyAndRefresh(Store, <<>>, d)
    /\ UNCHANGED <<on_change, on_confirm, nrecv, reconVars, driverVars, clientVars>>

\* (variant: on_change is invoked for every accepted delta; for a delta
\* without the text key the event carries the stored text)
StateUpdateInvoke_EveryDelta ==
    /\ CanDispatch
    /\ Head(inbox).kind = "delta"
    /\ LET d == Head(inbox).body
       IN  /\ ValidateDeltaStateFromFrontend(attrs, d)
           /\ "text" \in DOMAIN d => IsStr(d["text"])
           /\ on_change
           /\ Begin(Head(inbox))
           /\ AwaitHandler(Store, <<>>, "on_change",
                           IF "text" \in DOMAIN d
                           THEN DeltaChangeEventText(attrs, d) ELSE attrs["text"],
                           "se_on_change")
    /\ UNCHANGED <<on_change, on_confirm, nrecv, reconVars, driverVars, clientVars>>

\* The delta is accepted and on_change is invoked with the delta's text.
StateUpdateInvoke ==
    /\ CanDispatch
    /\ Head(inbox).kind = "delta"
    /\ LET d == Head(inbox).body
       IN  /\ ValidateDeltaStateFromFrontend(attrs, d)
           /\ "text" \in DOMAIN d
           /\ IsStr(d["text"])
           /\ on_change
           /\ Begin(Head(inbox))
           /\ AwaitHandler(Store, <<>>, "on_change",
                           DeltaChangeEventText(attrs, d), "se_on_change")
    /\ UNCHANGED <<on_change, on_confirm, nrecv, reconVars, driverVars, clientVars>>

\* on_change returns; only now is the delta applied.
StateUpdateReturn ==
    /\ pc = "se_on_change"
    /\ \E e \in Effects :
          LET S1 == HandlerReturns(Store, e, RunningEvent)
              l1 == Append(log, Entry("on_change_ret", NoValue, S1.attrs))
          IN  ApplyAndRefresh(S1, l1, cur.body)
    /\ UNCHANGED <<on_change, on_confirm, inbox, nrecv, cur, seq, pre,
                   reconVars, driverVars, clientVars>>

\* --------------------------------------------------- confirm (_on_message)
\* (variant: the refresh of the last line runs in a `finally`, so it is
\* awaited although the message was refused)
OnMessageRejected_Finally ==
    /\ CanDispatch
    /\ Head(inbox).kind = "confirm"
    /\ \/ ~Head(inbox).isdict
       \/ "text" \notin DOMAIN Head(inbox).body
    /\ Begin(Head(inbox))
    /\ AwaitRefresh(Store, <<>>)
    /\ UNCHANGED <<on_change, on_confirm, nrecv, reconVars, driverVars, clientVars>>

\* `assert isinstance(msg, dict)` fails or msg["text"] raises KeyError.
OnMessageRejected ==
    /\ CanDispatch
    /\ Head(inbox).kind = "confirm"
    /\ \/ ~Head(inbox).isdict
       \/ "text" \notin DOMAIN Head(inbox).body
    /\ Reject(Head(inbox))

\* (variant: the refresh is skipped when the handling left nothing dirty)
OnMessageRefresh_IfDirty(S, l) ==
    IF S.dirty = <<>> THEN Finish(S, l) ELSE AwaitRefresh(S, l)

\* (variant: the refresh is requested but not awaited)
OnMessageRefresh_NoAwait(S, l) ==
    /\ Commit(S)
    /\ log' = Append(l, Entry("refresh", NoValue, S.attrs))
    /\ requests' = requests + 1
    /\ pc' = "idle"
    /\ outcome' = "done"

\* _on_message, last statement: refresh the session.
OnMessageRefresh(S, l) == AwaitRefresh(S, l)

\* (variant: calling a handler that is None raises, the handling stops there)
OnMessageConfirm_Required(S, l, m) ==
    IF on_confirm
    THEN AwaitHandler(S, l, "on_confirm",
                      ConfirmConfirmEventText(S.attrs, m), "cf_on_confirm")
    ELSE /\ Commit(S)
         /\ log' = l
         /\ pc' = "idle"
         /\ outcome' = "rejected"
         /\ UNCHANGED requests

\* _on_message after on_change: the confirm event.
OnMessageConfirm(S, l, m) ==
    IF on_confirm
    THEN AwaitHandler(S, l, "on_confirm",
                      ConfirmConfirmEventText(S.attrs, m), "cf_on_confirm")
    ELSE OnMessageRefresh(S, l)

\* (variant: on_change is called only when the payload changed the text)
OnMessageChange_IfChanged(S, l, m) ==
    IF on_change /\ S.attrs["text"] # attrs["text"]
    THEN AwaitHandler(S, l, "on_change",
                      ConfirmChangeEventText(S.attrs, m), "cf_on_change")
    ELSE OnMessageConfirm(S, l, m)

\* _on_message after the payload is applied: the change event.
OnMessageChange(S, l, m) ==
    IF on_change
    THEN AwaitHandler(S, l, "on_change",
                      ConfirmChangeEventText(S.attrs, m), "cf_on_change")
    ELSE OnMessageConfirm(S, l, m)

\* _on_message from its start to the first handler it has to wait for.
OnMessage ==
    /\ CanDispatch
    /\ Head(inbox).kind = "confirm"
    /\ Head(inbox).isdict
    /\ "text" \in DOMAIN Head(inbox).body
    /\ LET m == Head(inbox)
           S1 == ApplyDeltaStateFromFrontend(Store, OnMessageDelta(m))
           l1 == <<Entry("apply", NoValue, S1.attrs)>>
       IN  /\ Begin(m)
           /\ OnMessageChange(S1, l1, m)
    /\ UNCHANGED <<on_change, on_confirm, nrecv, reconVars, driverVars, clientVars>>

\* on_change returns; the confirm event is built from the stored text.
OnMessageChangeReturn ==
    /\ pc = "cf_on_change"
    /\ \E e \in Effects :
          LET S1 == HandlerReturns(Store, e, RunningEvent)
              l1 == Append(log, Entry("on_change_ret", NoValue, S1.attrs))
          IN  OnMessageConfirm(S1, l1, cur)
    /\ UNCHANGED <<on_change, on_confirm, inbox, nrecv, cur, seq, pre,
                   reconVars, driverVars, clientVars>>

\* on_confirm returns; the session is refreshed.
OnMessageConfirmReturn ==
    /\ pc = "cf_on_confirm"
    /\ \E e \in Effects :
          LET S1 == HandlerReturns(Store, e, RunningEvent)
              l1 == Append(log, Entry("on_confirm_ret", NoValue, S1.attrs))
          IN  OnMessageRefresh(S1, l1)
    /\ UNCHANGED <<on_change, on_confirm, inbox, nrecv, cur, seq, pre,
                   reconVars, driverVars, clientVars>>

\* ------------------------------------------------ refresh (one cycle)
Zero == [i \in Ids |-> 0]
None == [i \in Ids |-> {}]

\* On the wire a component identifier is a string; int() reads it back.
KeyOf(i) == ToString(i)
IdOf(k) == CHOOSE i \in Ids : KeyOf(i) = k

\* The attributes of each component: the TextInput's, the root's `text`, and
\* the session root's reference to the user's root.
FullAttrs(id) ==
    IF id = TextInputId THEN AttrNames
    ELSE IF id = RootId THEN {"text"} ELSE {"content"}

\* The attributes of a component, by name.
AttrOf(id, name) ==
    IF id = TextInputId THEN attrs[name]
    ELSE IF id = RootId THEN rootText ELSE StrV(KeyOf(RootId))

\* What a component's builder produces: the root builds its TextInput from
\* its own text (`TextInput(text=self.text, ...)`), the session root holds
\* the user's root.
BuildOf(id) ==
    IF id = TextInputId THEN attrs["text"]
    ELSE IF id = RootId THEN rootText ELSE StrV(KeyOf(RootId))

\* A faulty builder raises when the text it builds from is "abc".
BuilderRaises(id) == id \in faulty /\ BuildOf(id) = StrV("abc")

\* The identifiers of q in ascending order, each as often as it occurs in q.
RECURSIVE Ascending(_)
Ascending(q) ==
    IF q = <<>> THEN <<>>
    ELSE LET m == CHOOSE x \in Range(q) : \A y \in Range(q) : x <= y
         IN  SelectSeq(q, LAMBDA x : x = m) \o Ascending(SelectSeq(q, LAMBDA x : x # m))

\* (variant: a cycle serves one request only, the others stay pending)
Drain_OnePerRequest ==
    /\ requests > 0
    /\ rstate = "Idle"
    /\ pc \in {"idle", "refresh"}
    /\ rstate' = "Draining"
    /\ todo' = Ascending(dirty)
    /\ cycle' = [n |-> cycle.n + 1, served |-> 1, total |-> cycle.total + 1,
                 drained |-> dirty, marks |-> marks, changes |-> changed,
                 built |-> Zero, failed |-> {}, prev |-> build,
                 before |-> Len(sent), deltas |-> EmptyDelta]
    /\ dirty' = <<>>
    /\ marks' = Zero
    /\ changed' = None
    /\ requests' = requests - 1
    /\ log' = IF pc = "refresh"
              THEN Append(log, Entry("cycle", NoValue, attrs)) ELSE log
    /\ UNCHANGED <<compVars, inbox, nrecv, cur, seq, pc, outcome, pre, sent,
                   driverVars, clientVars>>

\* The session task runs a cycle when one is requested and it is not inside
\* a handler.  All pending requests are served by this one cycle.
Drain ==
    /\ requests > 0
    /\ rstate = "Idle"
    /\ pc \in {"idle", "refresh"}
    /\ rstate' = "Draining"
    /\ todo' = Ascending(dirty)
    /\ cycle' = [n |-> cycle.n + 1, served |-> requests,
                 total |-> cycle.total + requests,
                 drained |-> dirty, marks |-> marks, changes |-> changed,
                 built |-> Zero, failed |-> {}, prev |-> build,
                 before |-> Len(sent), deltas |-> EmptyDelta]
    /\ dirty' = <<>>
    /\ marks' = Zero
    /\ changed' = None
    /\ requests' = 0
    /\ log' = IF pc = "refresh"
              THEN Append(log, Entry("cycle", NoValue, attrs)) ELSE log
    /\ UNCHANGED <<compVars, inbox, nrecv, cur, seq, pc, outcome, pre, sent,
                   driverVars, clientVars>>

\* (variant: a builder that raises ends the rebuilding, the components
\* after it are not built in this cycle)
Rebuild_Abort ==
    /\ rstate \in {"Draining", "Rebuilding"}
    /\ todo # <<>>
    /\ rstate' = "Rebuilding"
    /\ LET id == Head(todo)
       IN  IF BuilderRaises(id)
           THEN /\ todo' = <<>>
                /\ cycle' = [cycle EXCEPT !.built[id] = @ + 1,
                                          !.failed = @ \cup Range(todo)]
                /\ crashed' = crashed \cup {id}
                /\ build' = build
           ELSE /\ todo' = Tail(todo)
                /\ cycle' = [cycle EXCEPT !.built[id] = @ + 1]
                /\ crashed' = crashed
                /\ build' = [build EXCEPT ![id] = BuildOf(id)]
    /\ UNCHANGED <<compVars, inbox, nrecv, msgVars, dirty, marks, changed,
                   requests, sent, driverVars, lifeVars, transportVars>>

\* Rebuilding: the drained components, in ascending order of identifier.
\* A builder that raises is recorded as crashed and its component keeps the
\* Build Result it had; the cycle goes on with the next component.
Rebuild ==
    /\ rstate \in {"Draining", "Rebuilding"}
    /\ todo # <<>>
    /\ rstate' = "Rebuilding"
    /\ todo' = Tail(todo)
    /\ LET id == Head(todo)
       IN  IF BuilderRaises(id)
           THEN /\ cycle' = [cycle EXCEPT !.built[id] = @ + 1,
                                          !.failed = @ \cup {id}]
                /\ crashed' = crashed \cup {id}
                /\ build' = build
           ELSE /\ cycle' = [cycle EXCEPT !.built[id] = @ + 1]
                /\ crashed' = crashed
                /\ build' = [build EXCEPT ![id] = BuildOf(id)]
    /\ UNCHANGED <<compVars, inbox, nrecv, msgVars, dirty, marks, changed,
                   requests, sent, driverVars, lifeVars, transportVars>>

\* Diffing: identifier -> partial attribute delta, for every drained
\* component with a changed attribute whose builder did not raise.
DeltaStatesOf(c) ==
    [k \in {KeyOf(j) : j \in {j \in Range(c.drained) \ c.failed :
                                  c.changes[j] # {}}} |->
        [a \in c.changes[IdOf(k)] |-> AttrOf(IdOf(k), a)]]

Diff ==
    /\ rstate \in {"Draining", "Rebuilding"}
    /\ todo = <<>>
    /\ rstate' = "Diffing"
    /\ cycle' = [cycle EXCEPT !.deltas = DeltaStatesOf(cycle)]
    /\ UNCHANGED <<compVars, inbox, nrecv, msgVars, dirty, marks, changed,
                   requests, todo, sent, driverVars, clientVars>>

UpdateComponentStates(ds) == [method |-> "updateComponentStates", deltaStates |-> ds]

\* ------------------------------------------------------------- transport
\* TestClient._process_sent_message, first part: an outbound message with an
\* id is answered at once.
Response(id) == [jsonrpc |-> "2.0", id |-> id, result |-> NoValue]

\* (variant: every outbound message is answered, with the id None if it has
\* none)
QueueResponse_Always(q, m) ==
    Append(q, IF "id" \in DOMAIN m THEN Response(m.id) ELSE Response(NoValue))

QueueResponse(q, m) ==
    IF "id" \in DOMAIN m THEN Append(q, Response(m.id)) ELSE q

\* (variant: any outbound message sets the flag)
FirstRefreshCompleted_AnyMethod(f, m) == TRUE

\* TestClient._process_sent_message, second part: the flag after message m.
FirstRefreshCompleted(f, m) ==
    IF m.method = "updateComponentStates" THEN TRUE ELSE f

\* MessageRecorderTransport.send: the message is recorded and handed to
\* _process_sent_message.
TransportSend(m) ==
    /\ sent' = Append(sent, m)
    /\ responses' = QueueResponse(responses, m)
    /\ first_refresh_completed' = FirstRefreshCompleted(first_refresh_completed, m)

\* The cycle ends: one message if there is a delta, none otherwise; whoever
\* awaits the refresh continues.
Send ==
    /\ rstate = "Diffing"
    /\ rstate' = "Idle"
    /\ IF DOMAIN cycle.deltas # {}
       THEN TransportSend(UpdateComponentStates(cycle.deltas))
       ELSE UNCHANGED <<sent, transportVars>>
    /\ pc' = IF pc = "refresh" THEN "idle" ELSE pc
    /\ outcome' = IF pc = "refresh" THEN "done" ELSE outcome
    /\ log' = IF pc = "refresh"
              THEN Append(log, Entry("cycle_end", NoValue, attrs)) ELSE log
    /\ UNCHANGED <<compVars, inbox, nrecv, cur, seq, pre, dirty, marks, changed,
                   requests, todo, cycle, driverVars, lifeVars, buildVars>>

\* ------------------------------------------------------------ TestClient
NoChanges == [c \in {} |-> EmptyDelta]

\* (variant: the messages are searched from the first, not from the last)
LastComponentStateChanges_First(msgs) ==
    LET upd == {i \in DOMAIN msgs : msgs[i].method = "updateComponentStates"}
    IN  IF upd = {} THEN NoChanges
        ELSE LET ds == msgs[CHOOSE i \in upd : \A j \in upd : i <= j].deltaStates
             IN  [c \in {IdOf(k) : k \in DOMAIN ds} \ {SessionRootId} |-> ds[KeyOf(c)]]

\* TestClient._last_component_state_changes: the deltas of the last
\* updateComponentStates message, by component, without the session's root.
LastComponentStateChanges(msgs) ==
    LET upd == {i \in DOMAIN msgs : msgs[i].method = "updateComponentStates"}
    IN  IF upd = {} THEN NoChanges
        ELSE LET ds == msgs[CHOOSE i \in upd : \A j \in upd : i >= j].deltaStates
             IN  [c \in {IdOf(k) : k \in DOMAIN ds} \ {SessionRootId} |-> ds[KeyOf(c)]]

\* TestClient.crashed_build_functions and TestClient._get_build_output read
\* the session's records.
CrashedBuildFunctions == crashed
GetBuildOutput(id) == build[id]

\* ------------------------------------------------------ driving program
\* Code outside the handlers (a test using TestClient) assigns an attribute
\* of the user's root component or of the TextInput.
Mutate ==
    /\ phase = "Active"
    /\ pc = "idle"
    /\ rstate = "Idle"
    /\ nmut < MaxMutations
    /\ \E id \in {RootId, TextInputId}, name \in AttrNames,
          v \in {StrV(s) : s \in Texts} \cup BoolValues :
          /\ id = RootId => name = "text"
          /\ IsStr(v) <=> name = "text"
          /\ AttrOf(id, name) # v
          /\ Commit(SetAttr(Store, id, name, v))
    /\ nmut' = nmut + 1
    /\ UNCHANGED <<on_change, on_confirm, inbox, nrecv, msgVars, requests,
                   reconVars, nreq, clientVars>>

\* (variant: a closed session accepts the request like an active one)
SessionRefresh_IgnoresClose == requests' = requests + 1

\* Session._refresh, called from outside a handler: the request is queued
\* for the session task; a closed session ignores it.
SessionRefresh == requests' = IF phase = "Closed" THEN requests ELSE requests + 1

\* TestClient.refresh: `await self.session._refresh()`; `self.session`
\* asserts that there is a session.
ClientRefresh ==
    /\ phase \in {"Active", "Closed"}
    /\ pc = "idle"
    /\ rstate = "Idle"
    /\ nreq < MaxRequests
    /\ SessionRefresh
    /\ nreq' = nreq + 1
    /\ UNCHANGED <<compVars, inbox, nrecv, msgVars, dirty, marks, changed,
                   reconVars, nmut, clientVars>>

\* ------------------------------------------------------ session lifecycle
\* TestClient.__aenter__ up to its wait: create_session builds the tree, so
\* every component is dirty with all its attributes, and requests the first
\* refresh.
Enter ==
    /\ phase = "Created"
    /\ phase' = "Entering"
    /\ dirty' = <<SessionRootId, RootId, TextInputId>>
    /\ marks' = [i \in Ids |-> 1]
    /\ changed' = [i \in Ids |-> FullAttrs(i)]
    /\ requests' = 1
    /\ UNCHANGED <<compVars, inbox, nrecv, msgVars, reconVars, driverVars,
                   faulty, ncall, nclose, transportVars, buildVars>>

\* `await self._first_refresh_completed.wait()`, then `return self`.
EnterReturn ==
    /\ phase = "Entering"
    /\ first_refresh_completed
    /\ phase' = "Active"
    /\ UNCHANGED <<compVars, inbox, nrecv, msgVars, dirty, marks, changed,
                   requests, reconVars, driverVars, faulty, ncall, nclose,
                   transportVars, buildVars>>

\* Outbound messages of the session that are not state updates: a request
\* with a correlation id, numbered from 1, or a notification without one.
OtherMessage(withId, n) ==
    IF withId THEN [method |-> "other", id |-> n] ELSE [method |-> "other"]

\* Every shape of outbound message _process_sent_message may be given.
OutboundMessages ==
    {OtherMessage(w, n) : w \in BOOLEAN, n \in 1..MaxCalls}
    \cup {UpdateComponentStates(EmptyDelta)}
    \cup {[method |-> "updateComponentStates", deltaStates |-> EmptyDelta, id |-> n] :
             n \in 1..MaxCalls}

\* The session task sends such a message through the transport, between two
\* cycles.
RemoteCall ==
    /\ phase \in {"Entering", "Active"}
    /\ rstate = "Idle"
    /\ ncall < MaxCalls
    /\ \E withId \in BOOLEAN : TransportSend(OtherMessage(withId, ncall + 1))
    /\ ncall' = ncall + 1
    /\ UNCHANGED <<compVars, inbox, nrecv, msgVars, dirty, marks, changed,
                   requests, rstate, todo, cycle, driverVars, phase, faulty,
                   nclose, buildVars>>

\* Session._close: the session is Closed afterwards, whatever it was before.
SessionClose == phase' = "Closed"

\* TestClient.__aexit__: closes the session if there is one.  The body of
\* the `async with` has awaited its refreshes by then.
AExit ==
    /\ phase \in {"Created", "Active", "Closed"}
    /\ pc = "idle"
    /\ rstate = "Idle"
    /\ requests = 0
    /\ nclose < MaxCloses
    /\ nclose' = nclose + 1
    /\ IF phase = "Created" THEN UNCHANGED phase ELSE SessionClose
    /\ UNCHANGED <<compVars, inbox, nrecv, msgVars, dirty, marks, changed,
                   requests, reconVars, driverVars, faulty, ncall,
                   transportVars, buildVars>>

\* The transport delivers a client message to a closed session: it is
\* dropped.
ReceiveClosed ==
    /\ phase = "Closed"
    /\ nrecv < MaxMsgs
    /\ \E m \in Messages : nrecv' = nrecv + 1
    /\ UNCHANGED <<compVars, inbox, msgVars, dirty, marks, changed, requests,
                   reconVars, driverVars, clientVars>>

\* --------------------------------------------------------- specifications
\* The client's messages, their handlers and the refreshes they trigger.
Next ==
    \/ Enter
    \/ EnterReturn
    \/ Receive
    \/ StateUpdateRejected
    \/ StateUpdateNoHandler
    \/ StateUpdateInvoke
    \/ StateUpdateReturn
    \/ OnMessageRejected
    \/ OnMessage
    \/ OnMessageChangeReturn
    \/ OnMessageConfirmReturn
    \/ Drain
    \/ Rebuild
    \/ Diff
    \/ Send

Spec == Init /\ [][Next]_vars

\* The driving program: a test that enters the TestClient, assigns
\* attributes, calls refresh() and leaves; the cycles that serve it; calls
\* that reach the session after its close.  No handlers; builders may raise.
DriverInit == Setup({FALSE}, SUBSET {RootId, TextInputId})

DriverNext ==
    \/ Enter
    \/ EnterReturn
    \/ Mutate
    \/ ClientRefresh
    \/ Drain
    \/ Rebuild
    \/ Diff
    \/ Send
    \/ AExit
    \/ ReceiveClosed

DriverSpec == DriverInit /\ [][DriverNext]_vars

\* The transport of one TestClient: the session's outbound messages, state
\* updates and others, from the client's construction to its close.
ClientInit == Setup({FALSE}, {{}})

ClientNext ==
    \/ Enter
    \/ EnterReturn
    \/ RemoteCall
    \/ ClientRefresh
    \/ Drain
    \/ Rebuild
    \/ Diff
    \/ Send
    \/ AExit

ClientSpec == ClientInit /\ [][ClientNext]_vars

\* ================================================================ claims
\* Positions in the log of the message being handled.
Ops(op) == {i \in DOMAIN log : log[i].op = op}

IsDelta == cur.kind = "delta"
IsConfirm == cur.kind = "confirm" /\ cur.isdict /\ "text" \in DOMAIN cur.body
Handled == outcome \in {"done", "rejected"}

\* C1. Whitelist enforcement: a state-edit delta with a key other than `text`
\* is rejected by validation and leaves every attribute of the TextInput
\* (text, is_sensitive) as it was when the delta arrived, whatever the
\* delta's other keys and values.
C1_WhitelistEnforcement ==
    (IsDelta /\ ~(DOMAIN cur.body \subseteq {"text"}))
        => /\ ~ValidateDeltaStateFromFrontend(pre, cur.body)
           /\ outcome = "rejected"
           /\ attrs = pre
           /\ log = <<>>

\* A delta that would switch is_sensitive on has been rejected.
C1_Witness ==
    /\ IsDelta
    /\ DOMAIN cur.body = {"is_sensitive"}
    /\ cur.body["is_sensitive"] # pre["is_sensitive"]
    /\ outcome = "rejected"

\* C2. Atomic delta application: a delta with the key `text` and a key that
\* is not whitelisted is applied not at all (the stored text is the one from
\* before the message and on_change is not invoked); and once any delta has
\* been handled, either every key of it is in the store or the store is as
\* it was before the message.
C2_AtomicDelta ==
    /\ (IsDelta /\ DOMAIN cur.body = {"text", "is_sensitive"})
          => /\ attrs["text"] = pre["text"]
             /\ Ops("on_change") = {}
             /\ Ops("apply") = {}
    /\ (IsDelta /\ Handled)
          => \/ \A k \in DOMAIN cur.body : attrs[k] = cur.body[k]
             \/ attrs = pre

\* A mixed delta whose text part alone would have been accepted and would
\* have changed the text was dropped as a whole.
C2_Witness ==
    /\ IsDelta
    /\ DOMAIN cur.body = {"text", "is_sensitive"}
    /\ IsStr(cur.body["text"])
    /\ cur.body["text"] # pre["text"]
    /\ Truthy(pre["is_sensitive"])
    /\ on_change
    /\ outcome = "rejected"
    /\ seq = 2

\* What C3 says of a delta with text = v that passed validation.
StateEditOrdering(v) ==
    /\ outcome # "rejected"
    /\ on_change => /\ Cardinality(Ops("on_change")) = 1
                    /\ log[1].op = "on_change"
                    /\ log[1].ev = v
                    /\ log[1].stored = pre["text"]
    /\ ~on_change => Ops("on_change") = {}
    /\ \A i \in Ops("apply") : on_change => \E j \in Ops("on_change_ret") : j < i
    /\ Cardinality(Ops("apply")) <= 1
    /\ (pc = "refresh" \/ outcome = "done") => (Ops("apply") # {} /\ attrs["text"] = v)

\* C3 as stated. State-edit ordering: for a delta with text = v that passed
\* validation, on_change is invoked exactly once, with v from the delta, while
\* the stored text is still the previous one; the delta is applied only
\* after the handler returned (or when there is none), so the stored text is
\* v when handling ends.
C3_Original ==
    (IsDelta /\ "text" \in DOMAIN cur.body
        /\ ValidateDeltaStateFromFrontend(pre, cur.body))
        => StateEditOrdering(cur.body["text"])

\* C3, amended: the same for a delta that passed validation and whose text
\* value v is a string.
C3_StateEditOrdering ==
    (IsDelta /\ "text" \in DOMAIN cur.body
        /\ ValidateDeltaStateFromFrontend(pre, cur.body)
        /\ IsStr(cur.body["text"]))
        => StateEditOrdering(cur.body["text"])

\* on_change saw the new text while the old one was stored, assigned the
\* text itself, and the delta's text is stored at the end.
C3_Witness ==
    /\ IsDelta
    /\ on_change
    /\ outcome = "done"
    /\ log[1].op = "on_change"
    /\ log[1].ev # log[1].stored
    /\ log[2].stored # log[1].stored
    /\ attrs["text"] = cur.body["text"]
    /\ attrs["text"] # pre["text"]

\* C4. Confirm ordering: for a confirm message with text = v, first v is
\* stored, then on_change is invoked, then on_confirm; on_change finds v
\* already stored.  on_change is invoked on every confirm, also when v is the
\* text that was stored before.
C4_ConfirmOrdering ==
    IsConfirm =>
        LET v == cur.body["text"]
        IN  /\ outcome # "rejected"
            /\ log # <<>>
            /\ log[1].op = "apply"
            /\ log[1].stored = v
            /\ Ops("apply") = {1}
            /\ on_change => /\ Ops("on_change") = {2}
                            /\ log[2].ev = v
                            /\ log[2].stored = v
            /\ \A i \in Ops("on_confirm") :
                  on_change => \E j \in Ops("on_change_ret") : j < i
            /\ (on_confirm /\ (pc \in {"cf_on_confirm", "refresh"} \/ outcome = "done"))
                  => Cardinality(Ops("on_confirm")) = 1

\* A confirm that repeats the stored text: both handlers were invoked.
C4_Witness ==
    /\ IsConfirm
    /\ cur.body["text"] = pre["text"]
    /\ outcome = "done"
    /\ Ops("on_change") = {2}
    /\ Ops("on_change_ret") = {3}
    /\ Ops("on_confirm") = {4}

\* C5 as stated. For every confirm message the confirm event carries the same
\* text as the change event, whatever the change handler does.
C5_Original ==
    IsConfirm =>
        \A i \in Ops("on_change"), j \in Ops("on_confirm") : log[j].ev = log[i].ev

\* C5, amended: the confirm event carries the text that is stored when
\* on_confirm is invoked; it is the change event's text whenever the stored
\* text is the same at on_change's invocation and at its return.
C5_ConfirmEventIsStoredText ==
    IsConfirm =>
        \A j \in Ops("on_confirm") :
            /\ log[j].ev = log[j].stored
            /\ \A i \in Ops("on_change") :
                  (log[i + 1].op = "on_change_ret" /\ log[i + 1].stored = log[i].stored)
                      => log[j].ev = log[i].ev

\* on_change assigned the text; on_confirm got the assigned text.
C5_Witness ==
    /\ IsConfirm
    /\ Ops("on_change") = {2}
    /\ Ops("on_confirm") = {4}
    /\ log[3].stored # log[2].stored
    /\ log[4].ev = log[3].stored
    /\ log[4].ev # cur.body["text"]

\* C6. Unconditional refresh after confirm: a confirm message whose handling
\* completes has triggered one refresh, after both handlers returned; also
\* without handlers and when the payload repeats the stored text.  No cycle
\* is requested or running while a handler of the message runs.
C6_RefreshAfterConfirm ==
    IsConfirm =>
        /\ outcome = "done" =>
              /\ Cardinality(Ops("refresh")) = 1
              /\ Len(log) >= 3
              /\ log[Len(log) - 2].op = "refresh"
              /\ log[Len(log) - 1].op = "cycle"
              /\ log[Len(log)].op = "cycle_end"
        /\ \A i \in Ops("refresh") \cup Ops("cycle") :
              /\ \A j \in Ops("on_change") \cup Ops("on_confirm") : j < i
              /\ on_change => \E j \in Ops("on_change_ret") : j < i
              /\ on_confirm => \E j \in Ops("on_confirm_ret") : j < i
        /\ pc \in {"cf_on_change", "cf_on_confirm"} => (rstate = "Idle" /\ requests = 0)

\* No handler, nothing changed: the cycle ran all the same.
C6_Witness ==
    /\ IsConfirm
    /\ ~on_change
    /\ ~on_confirm
    /\ cur.body["text"] = pre["text"]
    /\ outcome = "done"
    /\ Ops("cycle_end") # {}
    /\ cycle.n = seq + 1

\* C7. One message at a time: messages are dispatched in arrival order, and
\* the next one is dispatched only when the handling of the previous one is
\* over: its handlers have returned and the refresh it triggered is done.
C7_OneAtATime ==
    [][/\ seq' # seq =>
            /\ seq' = seq + 1
            /\ outcome \in {"none", "done", "rejected"}
            /\ pc = "idle"
            /\ requests = 0
            /\ rstate = "Idle"
            /\ cur' = Head(inbox)
            /\ inbox' = Tail(inbox)
       /\ nrecv' # nrecv =>
            /\ seq' = seq
            /\ inbox = SubSeq(inbox', 1, Len(inbox))]_vars

\* The second message is inside its confirm handler; the first was handled
\* to the end of its refresh before.
C7_Witness ==
    /\ seq = 2
    /\ nrecv = 2
    /\ pc = "cf_on_confirm"
    /\ cycle.n = 2
    /\ rstate = "Idle"

\* Components with an attribute change in the running (or last) cycle, but
\* for those whose builder raised in it.
CycleChanged == {i \in Ids \ cycle.failed : cycle.changes[i] # {}}
CycleOver == rstate = "Idle" /\ cycle.n >= 1

\* C8. Coalescing: the refresh requests pending when a cycle starts are all
\* served by that one cycle, so every request made of an open session (the
\* one of its creation and the refresh() calls) is served by exactly one
\* cycle or still pending; the cycle sends at most one message, which holds
\* every attribute changed since the previous cycle; a cycle starts only when
\* none is running.
C8_Coalescing ==
    /\ [](/\ rstate # "Idle" => requests = 0
          /\ phase \in {"Entering", "Active"} => cycle.total + requests = nreq + 1
          /\ cycle.n <= cycle.total
          /\ cycle.n >= 1 => cycle.served >= 1
          /\ CycleOver =>
                /\ Len(sent) - cycle.before \in {0, 1}
                /\ CycleChanged # {} =>
                      /\ Len(sent) = cycle.before + 1
                      /\ DOMAIN sent[Len(sent)].deltaStates
                            = {KeyOf(i) : i \in CycleChanged}
                      /\ \A i \in CycleChanged :
                            DOMAIN sent[Len(sent)].deltaStates[KeyOf(i)]
                                = cycle.changes[i])
    /\ [][cycle.n' # cycle.n =>
            /\ rstate = "Idle"
            /\ cycle.n' = cycle.n + 1
            /\ cycle.served' = requests
            /\ cycle.changes' = changed
            /\ requests' = 0]_vars

\* Two assignments to two components and two refresh() calls: one cycle, one
\* message with both components.
C8_Witness ==
    /\ CycleOver
    /\ cycle.n = 2
    /\ cycle.served = 2
    /\ nmut = 2
    /\ CycleChanged = {RootId, TextInputId}
    /\ Len(sent) = 2
    /\ DOMAIN sent[2].deltaStates = {KeyOf(RootId), KeyOf(TextInputId)}

\* C9. A refresh sends exactly one updateComponentStates message when its
\* cycle found a changed attribute, with the delta of every changed component
\* under its identifier and the values the attributes have then (the test
\* client reads them back, but for the session's root); it sends nothing
\* when nothing changed.
C9_OneMessagePerRefresh ==
    /\ rstate = "Diffing" =>
          /\ DOMAIN cycle.deltas = {KeyOf(i) : i \in CycleChanged}
          /\ \A i \in CycleChanged :
                /\ DOMAIN cycle.deltas[KeyOf(i)] = cycle.changes[i]
                /\ \A a \in cycle.changes[i] : cycle.deltas[KeyOf(i)][a] = AttrOf(i, a)
    /\ CycleOver =>
          IF CycleChanged # {}
          THEN /\ Len(sent) = cycle.before + 1
               /\ sent[Len(sent)] = UpdateComponentStates(cycle.deltas)
               /\ LastComponentStateChanges(sent)
                     = [i \in CycleChanged \ {SessionRootId} |->
                           cycle.deltas[KeyOf(i)]]
          ELSE Len(sent) = cycle.before

\* A first refresh() sent a message, a second one, with nothing changed,
\* sent none.
C9_Witness ==
    /\ CycleOver
    /\ cycle.n = 3
    /\ CycleChanged = {}
    /\ cycle.failed = {}
    /\ cycle.before = 2
    /\ Len(sent) = 2
    /\ TextInputId \in DOMAIN LastComponentStateChanges(sent)

\* C10. Idempotent marking: however often a component was marked before the
\* drain, the cycle rebuilds it once; every marked component is rebuilt; and
\* while the cycle runs the dirty set holds none of the drained components.
C10_IdempotentMarking ==
    /\ \A i \in Ids : cycle.built[i] <= 1
    /\ \A i \in Ids : cycle.marks[i] >= 1 => i \in Range(cycle.drained)
    /\ (rstate = "Diffing" \/ CycleOver) =>
          \A i \in Ids : cycle.built[i] = IF i \in Range(cycle.drained) THEN 1 ELSE 0
    /\ rstate # "Idle" => Range(dirty) \cap Range(cycle.drained) = {}

\* The TextInput was marked twice before the drain and rebuilt once.
C10_Witness ==
    /\ CycleOver
    /\ cycle.marks[TextInputId] = 2
    /\ cycle.built[TextInputId] = 1
    /\ dirty = <<>>

\* C14. Conditional mutability: validation of a delta with the key `text`
\* fails whenever is_sensitive of the TextInput is false (and such a delta,
\* once dispatched, is rejected with the attributes as they were); with
\* is_sensitive true the deltas {} and {text: v} pass validation; the delta
\* without the text key, {}, passes whatever is_sensitive is.
C14_ConditionalMutability ==
    /\ \A d \in DeltaStates :
          ("text" \in DOMAIN d /\ ~Truthy(attrs["is_sensitive"]))
              => ~ValidateDeltaStateFromFrontend(attrs, d)
    /\ Truthy(attrs["is_sensitive"])
          => \A v \in TextValues : ValidateDeltaStateFromFrontend(attrs, TextDelta(v))
    /\ ValidateDeltaStateFromFrontend(attrs, EmptyDelta)
    /\ (IsDelta /\ "text" \in DOMAIN cur.body /\ ~Truthy(pre["is_sensitive"]))
          => /\ outcome = "rejected"
             /\ attrs = pre
             /\ log = <<>>
    /\ (IsDelta /\ cur.body = EmptyDelta) => outcome # "rejected"
    /\ (IsDelta /\ DOMAIN cur.body = {"text"} /\ IsStr(cur.body["text"])
           /\ Truthy(pre["is_sensitive"])) => outcome # "rejected"

\* A delta with nothing but a new string for the text was sent to a TextInput
\* that is not sensitive, and was rejected.
C14_Witness ==
    /\ IsDelta
    /\ DOMAIN cur.body = {"text"}
    /\ IsStr(cur.body["text"])
    /\ cur.body["text"] # pre["text"]
    /\ ~Truthy(pre["is_sensitive"])
    /\ outcome = "rejected"
    /\ attrs["text"] = pre["text"]

\* C15. Handlers are optional: with on_change absent, an accepted state-edit
\* delta is applied to the stored text all the same; with on_change or
\* on_confirm (or both) absent, a confirm message still stores its payload
\* first and still ends with its refresh; an absent handler is not invoked
\* and its absence never makes the message fail.
C15_HandlersOptional ==
    /\ (IsDelta /\ ~on_change /\ ValidateDeltaStateFromFrontend(pre, cur.body)
           /\ "text" \in DOMAIN cur.body /\ IsStr(cur.body["text"]))
          => /\ outcome # "rejected"
             /\ Ops("on_change") = {}
             /\ log[1].op = "apply"
             /\ attrs["text"] = cur.body["text"]
             /\ Ops("refresh") = {2}
    /\ (IsConfirm /\ (~on_change \/ ~on_confirm))
          => /\ outcome # "rejected"
             /\ log[1].op = "apply"
             /\ log[1].stored = cur.body["text"]
             /\ ~on_change => Ops("on_change") = {}
             /\ ~on_confirm => Ops("on_confirm") = {}
             /\ (~on_change /\ ~on_confirm) => Ops("refresh") = {2}
             /\ pc = "idle" => (Ops("refresh") # {} /\ Ops("cycle_end") # {})

\* A confirm with a new text for a TextInput that has a change handler and no
\* confirm handler: the text is stored, the refresh has run.
C15_Witness ==
    /\ IsConfirm
    /\ on_change
    /\ ~on_confirm
    /\ cur.body["text"] # pre["text"]
    /\ log[1].stored = cur.body["text"]
    /\ Ops("on_change_ret") = {3}
    /\ Ops("refresh") = {4}
    /\ outcome = "done"

\* C16. A malformed confirm message does not crash the session: a confirm
\* message that is not a mapping or has no text key is rejected, with the
\* attributes as they were, no handler invoked, nothing marked dirty for it
\* and no refresh requested or run for it; the session task is free again and
\* takes the next message of the queue.
C16_MalformedConfirm ==
    (cur.kind = "confirm" /\ ~(cur.isdict /\ "text" \in DOMAIN cur.body))
        => /\ outcome = "rejected"
           /\ attrs = pre
           /\ log = <<>>
           /\ requests = 0
           /\ rstate = "Idle"
           /\ pc = "idle"
           /\ inbox # <<>> => /\ CanDispatch
                              /\ ENABLED (StateUpdateRejected \/ StateUpdateNoHandler
                                          \/ StateUpdateInvoke \/ OnMessageRejected
                                          \/ OnMessage)

\* A confirm message without the text key was rejected as the first message;
\* the second message is waiting and can be dispatched.
C16_Witness ==
    /\ cur.kind = "confirm"
    /\ cur.isdict
    /\ cur.body = EmptyDelta
    /\ outcome = "rejected"
    /\ seq = 1
    /\ inbox # <<>>
    /\ Head(inbox).kind = "confirm"
    /\ CanDispatch

\* C17 as stated. A non-interactive TextInput is never edited by the client:
\* whatever message (state-edit delta or confirm) is dispatched to a TextInput
\* whose is_sensitive is false, the stored text stays the one from before the
\* message and no handler is invoked with a text.
C17_NonInteractiveNeverEdited ==
    (cur.kind # "none" /\ ~Truthy(pre["is_sensitive"]))
        => /\ attrs["text"] = pre["text"]
           /\ Ops("on_change") = {}
           /\ Ops("on_confirm") = {}

\* C19. The empty state-edit delta, the one without the text key, invokes no
\* change handler and leaves the text and every other attribute of the
\* TextInput (and the root's text) as they were; and for no state-edit delta,
\* accepted or not, is the confirm handler invoked.
C19_EmptyDeltaFrame ==
    /\ (IsDelta /\ "text" \notin DOMAIN cur.body
           /\ ValidateDeltaStateFromFrontend(pre, cur.body))
          => /\ cur.body = EmptyDelta
             /\ outcome # "rejected"
             /\ Ops("on_change") = {}
             /\ Ops("on_change_ret") = {}
             /\ attrs = pre
             /\ pc # "se_on_change"
    /\ IsDelta
          => /\ Ops("on_confirm") = {}
             /\ Ops("on_confirm_ret") = {}
             /\ pc \notin {"cf_on_change", "cf_on_confirm"}

\* The empty delta was handled to the end, refresh included, for a TextInput
\* with both handlers registered.
C19_Witness ==
    /\ IsDelta
    /\ cur.body = EmptyDelta
    /\ on_change
    /\ on_confirm
    /\ outcome = "done"
    /\ log[1].op = "apply"
    /\ Ops("cycle_end") # {}

\* C20 as stated. The stored text is a string in every reachable state, and
\* no handler is ever invoked with a text that is not a string: a non-string
\* text is rejected before the store is changed and before a handler runs,
\* for a state-edit delta and for a confirm message alike.
C20_TextIsString ==
    /\ IsStr(attrs["text"])
    /\ \A i \in Ops("on_change") \cup Ops("on_confirm") : IsStr(log[i].ev)
    /\ (cur.kind # "none" /\ "text" \in DOMAIN cur.body /\ ~IsStr(cur.body["text"]))
          => /\ outcome = "rejected"
             /\ attrs = pre
             /\ log = <<>>

\* C11. Isolation on build failure: when the builder of a drained component A
\* raises, the cycle goes on to its end; every other drained component B is
\* built, and B's changed attributes are in the cycle's message; A keeps the
\* Build Result it had when the cycle started, has no entry in the message
\* (the client keeps A's previous state) and is recorded as crashed.
C11_BuildIsolation ==
    /\ rstate # "Idle" => ENABLED (Rebuild \/ Diff \/ Send)
    /\ cycle.failed \subseteq Range(cycle.drained)
    /\ rstate = "Diffing" =>
          /\ cycle.failed = {i \in Range(cycle.drained) : BuilderRaises(i)}
          /\ \A B \in Range(cycle.drained) \ cycle.failed :
                GetBuildOutput(B) = BuildOf(B)
    /\ (rstate = "Diffing" \/ CycleOver) =>
          /\ \A A \in cycle.failed :
                /\ A \in CrashedBuildFunctions
                /\ GetBuildOutput(A) = cycle.prev[A]
                /\ KeyOf(A) \notin DOMAIN cycle.deltas
                /\ cycle.built[A] = 1
          /\ \A B \in Range(cycle.drained) \ cycle.failed :
                /\ cycle.built[B] = 1
                /\ cycle.changes[B] # {} =>
                      /\ KeyOf(B) \in DOMAIN cycle.deltas
                      /\ DOMAIN cycle.deltas[KeyOf(B)] = cycle.changes[B]
    /\ (CycleOver /\ DOMAIN cycle.deltas # {}) =>
          /\ Len(sent) = cycle.before + 1
          /\ sent[Len(sent)].deltaStates = cycle.deltas

\* The root's builder raised on its new text; the TextInput, dirty in the
\* same cycle, was built and its new state sent; the root kept its Build
\* Result and is recorded as crashed.
C11_Witness ==
    /\ CycleOver
    /\ cycle.failed = {RootId}
    /\ rootText = StrV("abc")
    /\ GetBuildOutput(RootId) = StrV("ab")
    /\ RootId \in CrashedBuildFunctions
    /\ cycle.changes[TextInputId] = {"is_sensitive"}
    /\ cycle.built[TextInputId] = 1
    /\ Len(sent) = cycle.before + 1
    /\ DOMAIN sent[Len(sent)].deltaStates = {KeyOf(TextInputId)}

\* Positions of the state updates among the outbound messages.
Updates(msgs) == {i \in DOMAIN msgs : msgs[i].method = "updateComponentStates"}
FirstUpdate(msgs) == msgs[CHOOSE i \in Updates(msgs) : \A j \in Updates(msgs) : i <= j]

\* C12. Full initial sync before return: creating the session sends one
\* updateComponentStates message, with one entry per component of the tree
\* and in it every attribute of the component with its value; __aenter__
\* returns only after that message was sent, whatever else the session sent
\* before.
C12_FullInitialSync ==
    /\ [](/\ phase \in {"Active", "Closed"} => Updates(sent) # {}
          /\ phase = "Entering" => Cardinality(Updates(sent)) <= 1
          /\ (phase = "Entering" /\ rstate = "Idle" /\ cycle.n >= 1)
                => Cardinality(Updates(sent)) = 1
          /\ Updates(sent) # {} =>
                LET ds == FirstUpdate(sent).deltaStates
                IN  /\ DOMAIN ds = {KeyOf(i) : i \in Ids}
                    /\ \A i \in Ids :
                          /\ DOMAIN ds[KeyOf(i)] = FullAttrs(i)
                          /\ \A a \in FullAttrs(i) : ds[KeyOf(i)][a] = AttrOf(i, a))
    /\ [][(phase = "Entering" /\ phase' = "Active")
             => /\ Cardinality(Updates(sent)) = 1
                /\ cycle.n = 1
                /\ rstate = "Idle"]_vars

\* The session sent two other messages first, then the initial state; only
\* then did __aenter__ return.
C12_Witness ==
    /\ phase = "Active"
    /\ Len(sent) = 3
    /\ sent[1].method = "other"
    /\ sent[2].method = "other"
    /\ Updates(sent) = {3}
    /\ DOMAIN sent[3].deltaStates = {KeyOf(i) : i \in Ids}
    /\ nreq = 0

\* The outbound messages that carry an id, in the order they were sent.
WithId(msgs) == SelectSeq(msgs, LAMBDA m : "id" \in DOMAIN m)

\* C18. Correlated acknowledgement: the responses queued for the session are,
\* in order, one {jsonrpc: "2.0", id, result: null} for each outbound
\* message with an id, with that id, and none for a message without one; the
\* first-refresh flag is set if and only if an updateComponentStates message
\* was sent, and once set it stays set.
C18_CorrelatedAck ==
    /\ [](/\ Len(responses) = Len(WithId(sent))
          /\ \A i \in DOMAIN responses :
                responses[i] = [jsonrpc |-> "2.0", id |-> WithId(sent)[i].id,
                                result |-> NoValue]
          /\ first_refresh_completed <=> Updates(sent) # {}
          /\ \A m \in OutboundMessages :
                /\ "id" \notin DOMAIN m => QueueResponse(responses, m) = responses
                /\ "id" \in DOMAIN m =>
                      /\ Len(QueueResponse(responses, m)) = Len(responses) + 1
                      /\ QueueResponse(responses, m)[Len(responses) + 1].id = m.id
                /\ FirstRefreshCompleted(first_refresh_completed, m)
                      <=> (first_refresh_completed \/ m.method = "updateComponentStates"))
    /\ [][/\ first_refresh_completed => first_refresh_completed'
          /\ Len(sent') = Len(sent) => responses' = responses]_vars

\* A request with an id and a notification without one were sent before the
\* flag was set: one response, with the request's id, no flag yet.
C18_Witness ==
    /\ Len(sent) = 2
    /\ "id" \in DOMAIN sent[1]
    /\ "id" \notin DOMAIN sent[2]
    /\ sent[2].method = "other"
    /\ responses = <<[jsonrpc |-> "2.0", id |-> sent[1].id, result |-> NoValue]>>
    /\ ~first_refresh_completed
    /\ phase = "Entering"

\* C13. close() is idempotent: a closed session stays Closed, and closing it
\* again changes nothing; a refresh() call or an inbound message that reaches
\* a closed session changes no attribute, no Build Result and no dirty mark,
\* starts no cycle and sends no message.
C13_CloseIdempotent ==
    /\ [](phase = "Closed" => (rstate = "Idle" /\ requests = 0 /\ pc = "idle"))
    /\ [][phase = "Closed" =>
            /\ phase' = "Closed"
            /\ UNCHANGED <<compVars, buildVars, dirty, marks, changed, requests,
                           reconVars, transportVars, inbox, msgVars>>]_vars
    /\ [][(phase = "Closed" /\ nclose' # nclose) =>
            UNCHANGED <<compVars, buildVars, dirty, marks, changed, requests,
                        reconVars, transportVars, inbox, msgVars, nrecv,
                        driverVars, phase, faulty, ncall>>]_vars

\* The session was closed twice, with the TextInput dirty; two refresh()
\* calls and a client message came after the close; no cycle ran for them.
C13_Witness ==
    /\ phase = "Closed"
    /\ nclose = 2
    /\ nreq = 2
    /\ nrecv >= 1
    /\ cycle.n = 1
    /\ TextInputId \in Range(dirty)
    /\ Len(sent) = 1

====
